---- MODULE Spec2Model ----
(***************************************************************************)
(* Signing coordination of docsign: the record store (documents, signers,  *)
(* fields, audit_logs), the artifact store (uploads/, signed_docs/) and    *)
(* the request handlers of app/routers/documents.py and                    *)
(* app/routers/signing.py.  Every request owns its own ORM session, so a   *)
(* handler is a sequence of steps, one per statement that reaches the      *)
(* database (query, commit) or the artifact store (awaited upload_file /   *)
(* download_file); steps of different requests interleave freely.          *)
(* sign_pdf_bytes of app/services/pdf_service.py is modelled as a function *)
(* from the original and the list of signatures to the pages it returns.   *)
(***************************************************************************)
EXTENDS Integers, Sequences, FiniteSets, TLC

\* ---------------------------------------------------------------- bounds
MaxDocs == 2
MaxSigners == 2
MaxCalls == 2
MaxSends == 2
MaxPages == 2
MaxPlacements == 2

DocIds == 1..MaxDocs
SignerIds == 1..MaxSigners
Procs == 1..MaxCalls
SendProcs == 1..MaxSends

\* inputs of the requests
\* current_user of the owner-side requests
Users == {"alice", "bob"}
Tokens == 0..MaxSigners
Payloads == {"imgA", "imgB"}
UploadKinds == {"pdf", "junk"}
SignerInputs == {[email |-> "a", name |-> "A"], [email |-> "b", name |-> "B"]}
FieldInputs ==
    { [signer_email |-> e, page_number |-> n, x_coordinate |-> 100,
       y_coordinate |-> 100, type |-> "DATE", include_name |-> FALSE,
       include_date |-> TRUE] : e \in {"a", "b"}, n \in {2, 3} }
\* what the artifact store answers: a failed call raises and leaves the key
\* as it was
StoreOutcomes == {"ok", "fail"}

\* ------------------------------------------------------------ models.py
DRAFT == "DRAFT"
SENT == "SENT"
COMPLETED == "COMPLETED"
SIGNATURE == "SIGNATURE"

Null == 0

\* contents of the artifact store
NoFile == [kind |-> "none"]
SigFile(data) == [kind |-> "sig", data |-> data]
UploadedFile(k) == [kind |-> k]

\* responses of the requests that keep no slot of their own
NoResponse == [op |-> "none"]
NotFound(op) == [op |-> op, status |-> "404"]
BadRequest(op) == [op |-> op, status |-> "400"]
ServerError(op) == [op |-> op, status |-> "500"]

VARIABLES
    IS_VERCEL,    \* storage.IS_VERCEL, fixed when the process starts
    documents,    \* table documents: row d has id d
    signers,      \* table signers: row s has id s and token s
    fields,       \* table fields
    audit_logs,   \* table audit_logs, in insertion order
    uploads,      \* artifact store, uploads/<uuid>_<filename> of document d
    sigFiles,     \* artifact store, signed_docs/sig_<id>_<token>.png.txt
    signedFiles,  \* artifact store, signed_docs/signed_<doc id>.pdf
    pendingField, \* add_signer requests between their two commits
    calls,        \* sign_document requests, numbered in order of arrival
    sends,        \* send_document requests, numbered in order of arrival
    response,     \* the last response of a download or view request and the
                  \* last error response of add_signer or add_field
    composite     \* pdf_service.sign_pdf_bytes taken alone: its arguments and
                  \* what its invocations returned

vars == <<IS_VERCEL, documents, signers, fields, audit_logs, uploads, sigFiles,
          signedFiles, pendingField, calls, sends, response, composite>>

dbVars == <<documents, signers, fields, audit_logs>>
storeVars == <<uploads, sigFiles, signedFiles>>

\* ----------------------------------------------------------- helpers
\* document.signers
SignersOf(d) == SelectSeq(signers, LAMBDA s : s.document_id = d)
\* document.fields
FieldsOf(d) == SelectSeq(fields, LAMBDA f : f.document_id = d)

AuditCount(d, action) ==
    Cardinality({i \in 1..Len(audit_logs) :
                    audit_logs[i].document_id = d /\ audit_logs[i].action = action})

AuditLog(d, action) == [document_id |-> d, action |-> action]

IdleCall == [pc |-> "idle", data |-> "None", sid |-> 0, now |-> Null,
             doc |-> 0, result |-> "none"]

\* a request that has returned keeps only its response
Finished(c, res) == [IdleCall EXCEPT !.pc = "done", !.result = res]

IdleSend == [pc |-> "idle", doc |-> 0, result |-> "none", links |-> <<>>]

\* db.query(Document).filter(id == document_id, user_id == current_user.id)
\* .first(): the id of the row, 0 for None
FindDocument(u, d) ==
    IF d \in 1..Len(documents) /\ documents[d].user_id = u THEN d ELSE 0

\* ------------------------------------------------ services/pdf_service.py
\* A PDF is the sequence of its pages and a page the sequence of the drawing
\* operations of its content stream; bytes that are no PDF have no pages.
OrigPage(i) == <<[op |-> "orig", page |-> i]>>
Pdf(n) == [kind |-> "pdf", pages |-> [i \in 1..n |-> OrigPage(i)]]
NotPdf == [kind |-> "junk"]
Raised == [kind |-> "raise"]

\* values of sig['image_data']: None, a data URL that decodes to a picture,
\* a text that does not
ImageData == {"None", "imgA", "bad"}

\* header, encoded = image_data.split(",", 1); base64.b64decode(encoded);
\* drawImage reading the temporary file: the picture, or "raise" when the
\* split finds no comma, the text is no base64 or the bytes are no picture
Decoded(image_data) == IF image_data = "imgA" THEN "pictureA" ELSE "raise"

\* tempfile.NamedTemporaryFile(delete=False, suffix=".png").name of the j-th
\* signature in an invocation that draws the random names of seed r
TmpPath(r, j) == <<"tmp", r, j>>

\* canvas.drawImage(tmp_path, ...) is given a file name, and for a file name
\* reportlab names the image XObject by the digest of the name and the mask,
\* not of the picture
XObjectName(tmp_path) == <<"FormXob", tmp_path, "auto">>

\* the drawing operations one signature adds to the canvas whose current
\* font size is size: inside the try block the picture and then the lines
\* asked for, nothing when the decoding raises (the except clause prints and
\* the lines, which follow drawImage inside the try block, are skipped);
\* without image_data the bare text in the current font
DrawSig(sig, tmp_path, size) ==
    IF sig.image_data # "None"
    THEN IF Decoded(sig.image_data) = "raise" THEN <<>>
         ELSE <<[op |-> "image", name |-> XObjectName(tmp_path),
                 data |-> Decoded(sig.image_data), x |-> sig.x, y |-> sig.y,
                 width |-> 150, height |-> 50]>>
              \o (IF sig.include_name
                  THEN <<[op |-> "text", size |-> 8, x |-> sig.x,
                          y |-> sig.y - 10, s |-> <<"Signer: ", sig.text>>]>>
                  ELSE <<>>)
              \o (IF sig.include_date
                  THEN <<[op |-> "text", size |-> 8, x |-> sig.x,
                          y |-> IF sig.include_name THEN sig.y - 20 ELSE sig.y - 10,
                          s |-> <<"Date: ", sig.signed_at>>]>>
                  ELSE <<>>)
    ELSE <<[op |-> "text", size |-> size, x |-> sig.x, y |-> sig.y,
            s |-> <<sig.text>>]>>

\* the font size of the canvas after the signature: setFont("Helvetica", 8)
\* runs only with a line drawn after a picture
SizeAfter(sig, size) ==
    IF /\ sig.image_data # "None"
       /\ Decoded(sig.image_data) # "raise"
       /\ (sig.include_name \/ sig.include_date)
    THEN 8 ELSE size

\* mutant: the pages counted from 0 (page_num = i)
SigsByPageFromZero(signatures, page_num) ==
    SelectSeq([j \in 1..Len(signatures) |-> j],
              LAMBDA j : signatures[j].page_number = page_num - 1)

\* sigs_by_page[page_num]: the positions in signatures of the signatures of
\* the page, in the order of the list
SigsByPage(signatures, page_num) ==
    SelectSeq([j \in 1..Len(signatures) |-> j],
              LAMBDA j : signatures[j].page_number = page_num)

\* the loop over sigs_by_page[page_num] from its k-th signature on
RECURSIVE Overlay(_, _, _, _, _)
Overlay(signatures, js, k, size, r) ==
    IF k > Len(js) THEN <<>>
    ELSE LET sig == signatures[js[k]]
         IN DrawSig(sig, TmpPath(r, js[k]), size)
            \o Overlay(signatures, js, k + 1, SizeAfter(sig, size), r)

\* one round of the loop over reader.pages: the page as it is added to the
\* writer.  c.save() emits a page only when something was drawn; whether
\* watermark.pages[0] then exists is left to the reportlab in use (empty)
PageOut(input_pdf_bytes, signatures, page_num, r, empty) ==
    LET js == SigsByPage(signatures, page_num)
        drawn == Overlay(signatures, js, 1, 12, r)
    IN IF js = <<>> THEN input_pdf_bytes.pages[page_num]
       ELSE IF drawn = <<>> /\ empty = "raise" THEN <<[op |-> "raise"]>>
       ELSE input_pdf_bytes.pages[page_num] \o drawn

\* sign_pdf_bytes(input_pdf_bytes, signatures): PdfReader raises on bytes
\* that are no PDF, and an exception in a page leaves the function
sign_pdf_bytes(input_pdf_bytes, signatures, r, empty) ==
    IF input_pdf_bytes.kind # "pdf" THEN Raised
    ELSE LET out == [i \in 1..Len(input_pdf_bytes.pages) |->
                        PageOut(input_pdf_bytes, signatures, i, r, empty)]
         IN IF \E i \in 1..Len(out) : out[i] = <<[op |-> "raise"]>>
            THEN Raised
            ELSE [kind |-> "pdf", pages |-> out]

\* the random names tempfile may hand out in one invocation
TmpSeeds == {"r1", "r2"}
NotRun == [kind |-> "not run"]

\* no invocation of sign_pdf_bytes under study
NoComposite == [input_pdf_bytes |-> NotPdf, signatures |-> <<>>,
                empty |-> "blank", outputs |-> [r \in TmpSeeds |-> NotRun]]

Init ==
    /\ IS_VERCEL \in BOOLEAN
    /\ documents = <<>>
    /\ signers = <<>>
    /\ fields = <<>>
    /\ audit_logs = <<>>
    /\ uploads = [d \in DocIds |-> NoFile]
    /\ sigFiles = [s \in SignerIds |-> NoFile]
    /\ signedFiles = [d \in DocIds |-> NoFile]
    /\ pendingField = {}
    /\ calls = [p \in Procs |-> IdleCall]
    /\ sends = [q \in SendProcs |-> IdleSend]
    /\ response = NoResponse
    /\ composite = NoComposite

\* ------------------------------------------------- routers/documents.py
\* upload_document
Upload(u, kind) ==
    /\ Len(documents) < MaxDocs
    /\ LET d == Len(documents) + 1 IN
        /\ uploads' = [uploads EXCEPT ![d] = UploadedFile(kind)]
        /\ documents' = Append(documents, [id |-> d, user_id |-> u, status |-> DRAFT])
    /\ UNCHANGED <<IS_VERCEL, composite, signers, fields, audit_logs, sigFiles, signedFiles,
                   pendingField, calls, sends, response>>

\* the file the two download handlers serve for document d and their
\* response; outcome is what storage.download_file answers
DownloadResponse(op, d, outcome) ==
    LET signed == /\ documents[d].status = COMPLETED
                  /\ ~IS_VERCEL
                  /\ signedFiles[d].kind # "none"
        file == IF signed THEN signedFiles[d] ELSE uploads[d]
    IN IF outcome = "ok"
       THEN [op |-> op, status |-> "200", content |-> file, signed_name |-> signed]
       ELSE ServerError(op)

\* download_document
Download(u, d, outcome) ==
    /\ d \in DocIds
    /\ response' = IF FindDocument(u, d) = 0 THEN NotFound("download")
                   ELSE DownloadResponse("download", d, outcome)
    /\ UNCHANGED <<IS_VERCEL, composite, dbVars, storeVars, pendingField, calls, sends>>

\* AddSignerCommit with the user_id filter of documents.py:89 missing
AddSignerCommitAnyUser(u, d, in) ==
    /\ d \in 1..Len(documents)
    /\ Len(signers) < MaxSigners
    /\ LET s == Len(signers) + 1 IN
        /\ signers' = Append(signers,
              [id |-> s, document_id |-> d, email |-> in.email, name |-> in.name,
               token |-> s, has_signed |-> FALSE, signed_at |-> Null])
        /\ pendingField' = pendingField \cup {s}
    /\ UNCHANGED <<IS_VERCEL, composite, documents, fields, audit_logs, storeVars, calls,
                   sends, response>>

\* add_signer, up to the first commit (the Signer row)
AddSignerCommit(u, d, in) ==
    /\ d \in DocIds
    /\ IF FindDocument(u, d) = 0
       THEN /\ response' = NotFound("add_signer")
            /\ UNCHANGED <<signers, pendingField>>
       ELSE /\ Len(signers) < MaxSigners
            /\ LET s == Len(signers) + 1 IN
                /\ signers' = Append(signers,
                      [id |-> s, document_id |-> d, email |-> in.email,
                       name |-> in.name, token |-> s, has_signed |-> FALSE,
                       signed_at |-> Null])
                /\ pendingField' = pendingField \cup {s}
            /\ UNCHANGED response
    /\ UNCHANGED <<IS_VERCEL, composite, documents, fields, audit_logs, storeVars, calls, sends>>

DefaultField(d, s) ==
    [document_id |-> d, signer_id |-> s, page_number |-> 1, x_coordinate |-> 450,
     y_coordinate |-> 750, type |-> SIGNATURE, include_name |-> TRUE,
     include_date |-> TRUE]

\* add_signer, the second commit (the default Field row)
AddSignerField(s) ==
    /\ s \in pendingField
    /\ fields' = Append(fields, DefaultField(signers[s].document_id, s))
    /\ pendingField' = pendingField \ {s}
    /\ UNCHANGED <<IS_VERCEL, composite, documents, signers, audit_logs, storeVars, calls,
                   sends, response>>

\* .first() of a query whose filter the rows with the ids in S satisfy: the
\* lowest id, 0 when there is none
First(S) == IF S = {} THEN 0 ELSE CHOOSE i \in S : \A j \in S : i <= j

\* the Field row add_field writes for signer s of document d
FieldRow(d, s, in) ==
    [document_id |-> d, signer_id |-> s, page_number |-> in.page_number,
     x_coordinate |-> in.x_coordinate, y_coordinate |-> in.y_coordinate,
     type |-> in.type, include_name |-> in.include_name,
     include_date |-> in.include_date]

\* AddField with the lookup of the existing Field (documents.py:140) missing
AddFieldAlwaysInsert(u, d, in) ==
    /\ d \in DocIds
    /\ LET s == First({i \in 1..Len(signers) :
                        signers[i].document_id = d
                        /\ signers[i].email = in.signer_email})
       IN IF FindDocument(u, d) = 0
          THEN response' = NotFound("add_field") /\ UNCHANGED fields
          ELSE IF s = 0
          THEN response' = BadRequest("add_field") /\ UNCHANGED fields
          ELSE /\ fields' = Append(fields, FieldRow(d, s, in))
               /\ Len(fields) < 2 * MaxSigners
               /\ UNCHANGED response
    /\ UNCHANGED <<IS_VERCEL, composite, documents, signers, audit_logs, storeVars,
                   pendingField, calls, sends>>

\* mutant: the signer and its Field looked up without the document_id filters
\* of documents.py:135 and 140
AddFieldAnyDocument(u, d, in) ==
    /\ d \in DocIds
    /\ LET s == First({i \in 1..Len(signers) :
                        signers[i].email = in.signer_email})
           f == First({i \in 1..Len(fields) : fields[i].signer_id = s})
       IN IF FindDocument(u, d) = 0
          THEN response' = NotFound("add_field") /\ UNCHANGED fields
          ELSE IF s = 0
          THEN response' = BadRequest("add_field") /\ UNCHANGED fields
          ELSE /\ fields' = IF f # 0 THEN [fields EXCEPT ![f] = FieldRow(d, s, in)]
                                     ELSE Append(fields, FieldRow(d, s, in))
               /\ UNCHANGED response
    /\ UNCHANGED <<IS_VERCEL, composite, documents, signers, audit_logs, storeVars,
                   pendingField, calls, sends>>

\* add_field
AddField(u, d, in) ==
    /\ d \in DocIds
    /\ LET s == First({i \in 1..Len(signers) :
                        signers[i].document_id = d
                        /\ signers[i].email = in.signer_email})
           f == First({i \in 1..Len(fields) :
                        fields[i].document_id = d /\ fields[i].signer_id = s})
       IN IF FindDocument(u, d) = 0
          THEN response' = NotFound("add_field") /\ UNCHANGED fields
          ELSE IF s = 0
          THEN response' = BadRequest("add_field") /\ UNCHANGED fields
          ELSE /\ fields' = IF f # 0 THEN [fields EXCEPT ![f] = FieldRow(d, s, in)]
                                     ELSE Append(fields, FieldRow(d, s, in))
               /\ UNCHANGED response
    /\ UNCHANGED <<IS_VERCEL, composite, documents, signers, audit_logs, storeVars,
                   pendingField, calls, sends>>

\* SendRead with the status check of documents.py:176 missing
SendReadNoCheck(q, u, d) ==
    /\ sends[q].pc = "idle"
    /\ \A o \in 1..(q - 1) : sends[o].pc # "idle"
    /\ d \in DocIds
    /\ sends' = [sends EXCEPT ![q] =
          IF FindDocument(u, d) = 0
          THEN [IdleSend EXCEPT !.pc = "done", !.result = "404"]
          ELSE [IdleSend EXCEPT !.pc = "commit", !.doc = d]]
    /\ UNCHANGED <<IS_VERCEL, composite, dbVars, storeVars, pendingField, calls, response>>

\* send_document, the query and the status check
SendRead(q, u, d) ==
    /\ sends[q].pc = "idle"
    /\ \A o \in 1..(q - 1) : sends[o].pc # "idle"
    /\ d \in DocIds
    /\ sends' = [sends EXCEPT ![q] =
          IF FindDocument(u, d) = 0
          THEN [IdleSend EXCEPT !.pc = "done", !.result = "404"]
          ELSE IF documents[d].status # DRAFT
               THEN [IdleSend EXCEPT !.pc = "done", !.result = "400"]
               ELSE [IdleSend EXCEPT !.pc = "commit", !.doc = d]]
    /\ UNCHANGED <<IS_VERCEL, composite, dbVars, storeVars, pendingField, calls, response>>

\* send_document, the commit of status = SENT and of the SENT audit row
SendCommit(q) ==
    /\ sends[q].pc = "commit"
    /\ LET d == sends[q].doc IN
        /\ documents' = [documents EXCEPT ![d].status = SENT]
        /\ audit_logs' = Append(audit_logs, AuditLog(d, "SENT"))
    /\ sends' = [sends EXCEPT ![q].pc = "links"]
    /\ UNCHANGED <<IS_VERCEL, composite, signers, fields, storeVars, pendingField, calls,
                   response>>

\* f"http://localhost:8000/?signing_token={s.token}"
Link(token) == <<"http://localhost:8000/?signing_token=", token>>

\* the links send_document builds from the rows its query returns
LinksOf(rows) ==
    [i \in 1..Len(rows) |-> [email |-> rows[i].email, link |-> Link(rows[i].token)]]

\* SendLinks with the document_id filter of documents.py:192 missing
SendLinksAllSigners(q) ==
    /\ sends[q].pc = "links"
    /\ sends' = [sends EXCEPT ![q] =
          [IdleSend EXCEPT !.pc = "done", !.result = "ok",
                           !.links = LinksOf(signers)]]
    /\ UNCHANGED <<IS_VERCEL, composite, dbVars, storeVars, pendingField, calls, response>>

\* send_document, the query of the signers and the response
SendLinks(q) ==
    /\ sends[q].pc = "links"
    /\ sends' = [sends EXCEPT ![q] =
          [IdleSend EXCEPT !.pc = "done", !.result = "ok",
                           !.links = LinksOf(SignersOf(sends[q].doc))]]
    /\ UNCHANGED <<IS_VERCEL, composite, dbVars, storeVars, pendingField, calls, response>>

\* --------------------------------------------------- routers/signing.py
\* all(s.has_signed for s in document.signers)
AllSigned(rows) == \A i \in 1..Len(rows) : rows[i].has_signed

\* datetime.utcnow() read by the p-th request to arrive: later requests read
\* later times
UtcNow(p) == p

\* SignLookup without the has_signed check of signing.py:69
SignLookupNoCheck(p, t, data) ==
    /\ calls[p].pc = "idle"
    /\ \A o \in 1..(p - 1) : calls[o].pc # "idle"
    /\ LET s == First({i \in 1..Len(signers) : signers[i].token = t})
       IN calls' = [calls EXCEPT ![p] =
            IF s = 0 THEN Finished(calls[p], "404")
            ELSE [IdleCall EXCEPT !.pc = "upload_sig", !.data = data, !.sid = s,
                                  !.doc = signers[s].document_id,
                                  !.now = UtcNow(p)]]
    /\ UNCHANGED <<dbVars, storeVars, pendingField, sends,
                   IS_VERCEL, composite, response>>

\* sign_document: the token query and the has_signed check
SignLookup(p, t, data) ==
    /\ calls[p].pc = "idle"
    /\ \A o \in 1..(p - 1) : calls[o].pc # "idle"
    /\ LET s == First({i \in 1..Len(signers) : signers[i].token = t})
       IN calls' = [calls EXCEPT ![p] =
            IF s = 0 THEN Finished(calls[p], "404")
            ELSE IF signers[s].has_signed THEN Finished(calls[p], "400")
            ELSE [IdleCall EXCEPT !.pc = "upload_sig", !.data = data, !.sid = s,
                                  !.doc = signers[s].document_id,
                                  !.now = UtcNow(p)]]
    /\ UNCHANGED <<dbVars, storeVars, pendingField, sends,
                   IS_VERCEL, composite, response>>

\* SignUploadSig with the error of the upload caught and the request going on
SignUploadSigSwallow(p, outcome) ==
    /\ calls[p].pc = "upload_sig"
    /\ LET c == calls[p] IN
        /\ sigFiles' = IF outcome = "ok"
                       THEN [sigFiles EXCEPT ![c.sid] = SigFile(c.data)]
                       ELSE sigFiles
        /\ calls' = [calls EXCEPT ![p].pc = "commit1", ![p].data = "None"]
    /\ UNCHANGED <<dbVars, uploads, signedFiles,
                   pendingField, sends,
                   IS_VERCEL, composite, response>>

\* sign_document: await storage.upload_file(sig_content, sig_filename, ...)
SignUploadSig(p, outcome) ==
    /\ calls[p].pc = "upload_sig"
    /\ LET c == calls[p] IN
        CASE outcome = "ok" ->
               /\ sigFiles' = [sigFiles EXCEPT ![c.sid] = SigFile(c.data)]
               /\ calls' = [calls EXCEPT ![p].pc = "commit1", ![p].data = "None"]
          [] outcome = "fail" ->
               /\ UNCHANGED sigFiles
               /\ calls' = [calls EXCEPT ![p] = Finished(c, "500")]
    /\ UNCHANGED <<dbVars, uploads, signedFiles,
                   pendingField, sends,
                   IS_VERCEL, composite, response>>

\* mutant: signer.signed_at = datetime.utcnow() (signing.py:73) left out
SignCommit1NoDate(p) ==
    /\ calls[p].pc = "commit1"
    /\ LET c == calls[p] IN
        /\ signers' = [signers EXCEPT ![c.sid].has_signed = TRUE]
        /\ audit_logs' = Append(audit_logs, AuditLog(c.doc, "SIGNED"))
    /\ calls' = [calls EXCEPT ![p].pc = "check", ![p].now = Null, ![p].sid = 0]
    /\ UNCHANGED <<documents, fields, storeVars, pendingField, sends,
                   IS_VERCEL, composite, response>>

\* sign_document: the commit of has_signed, signed_at and the SIGNED audit row
SignCommit1(p) ==
    /\ calls[p].pc = "commit1"
    /\ LET c == calls[p] IN
        /\ signers' = [signers EXCEPT ![c.sid].has_signed = TRUE,
                                      ![c.sid].signed_at = c.now]
        /\ audit_logs' = Append(audit_logs, AuditLog(c.doc, "SIGNED"))
    /\ calls' = [calls EXCEPT ![p].pc = "check", ![p].now = Null, ![p].sid = 0]
    /\ UNCHANGED <<documents, fields, storeVars, pendingField, sends,
                   IS_VERCEL, composite, response>>

\* SignCheck with SIGNED_DOCS_DIR defined and the signed PDF left out: the
\* pending document.status = COMPLETED reaches the last db.commit()
SignCheckCompletes(p) ==
    /\ calls[p].pc = "check"
    /\ LET c == calls[p]
           rows == SignersOf(c.doc)
       IN /\ calls' = [calls EXCEPT ![p] = Finished(c, "ok")]
          /\ documents' = IF AllSigned(rows)
                          THEN [documents EXCEPT ![c.doc].status = COMPLETED]
                          ELSE documents
    /\ UNCHANGED <<signers, fields, audit_logs, storeVars, pendingField, sends,
                   IS_VERCEL, composite, response>>

\* sign_document from the reload of signer.document to the response.  When
\* all_signed holds, document.status = COMPLETED is set on the session's
\* object and the next statement, signing.py:111, reads SIGNED_DOCS_DIR, a
\* name the module neither defines nor imports: the NameError leaves the
\* handler before the loop over the signers and before the try block, the
\* request is answered 500 and get_db closes the session, which discards the
\* pending status.  Otherwise the last db.commit() has nothing to write and
\* the request is answered 200.
SignCheck(p) ==
    /\ calls[p].pc = "check"
    /\ LET c == calls[p]
           rows == SignersOf(c.doc)
       IN calls' = [calls EXCEPT ![p] =
            IF AllSigned(rows) THEN Finished(c, "500") ELSE Finished(c, "ok")]
    /\ UNCHANGED <<dbVars, storeVars, pendingField, sends,
                   IS_VERCEL, composite, response>>

\* download_signed_by_token
DownloadByToken(t, outcome) ==
    /\ LET s == First({i \in 1..Len(signers) : signers[i].token = t})
       IN response' = IF s = 0 THEN NotFound("download_by_token")
                      ELSE DownloadResponse("download_by_token",
                                            signers[s].document_id, outcome)
    /\ UNCHANGED <<IS_VERCEL, composite, dbVars, storeVars, pendingField, calls, sends>>

\* ViewForSigning answering 200 with nothing in it for an unknown token
ViewForSigningNoCheck(t) ==
    /\ LET s == First({i \in 1..Len(signers) : signers[i].token = t})
       IN response' =
            IF s = 0
            THEN [op |-> "view", status |-> "200", document_id |-> 0,
                  signer_name |-> "None", fields |-> <<>>]
            ELSE [op |-> "view", status |-> "200",
                  document_id |-> signers[s].document_id,
                  signer_name |-> signers[s].name,
                  fields |-> SelectSeq(FieldsOf(signers[s].document_id),
                                       LAMBDA f : f.signer_id = s)]
    /\ UNCHANGED <<IS_VERCEL, composite, dbVars, storeVars, pendingField, calls, sends>>

\* mutant: the fields of the document without the filter on signer_id
ViewForSigningAllFields(t) ==
    /\ LET s == First({i \in 1..Len(signers) : signers[i].token = t})
       IN response' =
            IF s = 0 THEN NotFound("view")
            ELSE [op |-> "view", status |-> "200",
                  document_id |-> signers[s].document_id,
                  signer_name |-> signers[s].name,
                  fields |-> FieldsOf(signers[s].document_id)]
    /\ UNCHANGED <<IS_VERCEL, composite, dbVars, storeVars, pendingField, calls, sends>>

\* view_document_for_signing
ViewForSigning(t) ==
    /\ LET s == First({i \in 1..Len(signers) : signers[i].token = t})
       IN response' =
            IF s = 0 THEN NotFound("view")
            ELSE [op |-> "view", status |-> "200",
                  document_id |-> signers[s].document_id,
                  signer_name |-> signers[s].name,
                  fields |-> SelectSeq(FieldsOf(signers[s].document_id),
                                       LAMBDA f : f.signer_id = s)]
    /\ UNCHANGED <<IS_VERCEL, composite, dbVars, storeVars, pendingField, calls, sends>>

\* ------------------------------------------- sign_pdf_bytes taken alone
\* an invocation of sign_pdf_bytes with the arguments under study; r stands
\* for the random names its temporary files get, which no other invocation
\* gets
Composite(r) ==
    /\ composite.outputs[r] = NotRun
    /\ composite' = [composite EXCEPT !.outputs[r] =
          sign_pdf_bytes(composite.input_pdf_bytes, composite.signatures, r,
                         composite.empty)]
    /\ UNCHANGED <<IS_VERCEL, dbVars, storeVars, pendingField, calls, sends,
                   response>>

\* ------------------------------------------------------- specifications
\* the owner-side requests of the users in us, with signer inputs sin and
\* field inputs fin
OwnerStep(us, sin, fin) ==
    \/ \E u \in us, k \in UploadKinds : Upload(u, k)
    \/ \E u \in us, d \in DocIds, in \in sin : AddSignerCommit(u, d, in)
    \/ \E s \in SignerIds : AddSignerField(s)
    \/ \E u \in us, d \in DocIds, in \in fin : AddField(u, d, in)
    \/ \E q \in SendProcs, u \in us, d \in DocIds : SendRead(q, u, d)
    \/ \E q \in SendProcs : SendCommit(q)
    \/ \E q \in SendProcs : SendLinks(q)
    \/ \E u \in us, d \in DocIds, o \in StoreOutcomes : Download(u, d, o)

\* the steps of the sign_document request p after its token query; up is
\* what the artifact store may answer to the upload of the signature
SignStep(p, up) ==
    \/ \E o \in up : SignUploadSig(p, o)
    \/ SignCommit1(p)
    \/ SignCheck(p)

Next ==
    \/ OwnerStep(Users, SignerInputs, FieldInputs)
    \/ \E p \in Procs, t \in Tokens, data \in Payloads : SignLookup(p, t, data)
    \/ \E p \in Procs : SignStep(p, StoreOutcomes)
    \/ \E t \in Tokens, o \in StoreOutcomes : DownloadByToken(t, o)
    \/ \E t \in Tokens : ViewForSigning(t)

Spec == Init /\ [][Next]_vars

\* The same handlers with one user, one document, one signer input and one
\* payload and without add_field, download and view requests: the lifecycle
\* of a document and its signers.
CoreStep(up) ==
    \/ \E k \in UploadKinds : documents = <<>> /\ Upload("alice", k)
    \/ \E d \in 1..Len(documents) :
          AddSignerCommit("alice", d, [email |-> "a", name |-> "A"])
    \/ \E s \in SignerIds : AddSignerField(s)
    \/ \E q \in SendProcs : SendRead(q, "alice", 1)
    \/ \E q \in SendProcs : SendCommit(q)
    \/ \E q \in SendProcs : SendLinks(q)
    \/ \E p \in Procs, t \in Tokens : SignLookup(p, t, "imgA")
    \/ \E p \in Procs : SignStep(p, up)

CoreNext == CoreStep(StoreOutcomes)
CoreSpec == Init /\ [][CoreNext]_vars

\* Document 1 of alice with status st and its first n signers, each with the
\* default field of add_signer: the state after upload and n add_signer
\* requests and, when st is SENT, one send_document.
DocInit(n, st) ==
    /\ IS_VERCEL \in BOOLEAN
    /\ documents = <<[id |-> 1, user_id |-> "alice", status |-> st]>>
    /\ signers = [s \in 1..n |->
                    [id |-> s, document_id |-> 1, email |-> "a", name |-> "A",
                     token |-> s, has_signed |-> FALSE, signed_at |-> Null]]
    /\ fields = [s \in 1..n |-> DefaultField(1, s)]
    /\ audit_logs = IF st = SENT THEN <<AuditLog(1, "SENT")>> ELSE <<>>
    /\ \E k \in UploadKinds :
          uploads = [d \in DocIds |-> IF d = 1 THEN UploadedFile(k) ELSE NoFile]
    /\ sigFiles = [s \in SignerIds |-> NoFile]
    /\ signedFiles = [d \in DocIds |-> NoFile]
    /\ pendingField = {}
    /\ calls = [p \in Procs |-> IdleCall]
    /\ sends = [q \in SendProcs |->
                  IF q = 1 /\ st = SENT
                  THEN [IdleSend EXCEPT !.pc = "done", !.result = "ok",
                                        !.links = LinksOf(signers)]
                  ELSE IdleSend]
    /\ response = NoResponse
    /\ composite = NoComposite

\* A Draft document that lacks its last signer: the owner adds the signer and
\* sends the document once while each signer submits once; the artifact
\* store does not fail.
SubmitNext ==
    \/ AddSignerCommit("alice", 1, [email |-> "a", name |-> "A"])
    \/ \E s \in SignerIds : AddSignerField(s)
    \/ SendRead(1, "alice", 1)
    \/ SendCommit(1)
    \/ SendLinks(1)
    \/ \E p \in Procs \cap SignerIds : SignLookup(p, p, "imgA")
    \/ \E p \in Procs : SignStep(p, {"ok"})

SubmitSpec == DocInit(MaxSigners - 1, DRAFT) /\ [][SubmitNext]_vars

\* A Sent document that lacks its last signer: the owner adds the signer
\* while sign_document requests arrive with any token and any payload, more
\* than once for one signer; the artifact store may fail on the upload of a
\* signature.
ResignNext ==
    \/ AddSignerCommit("alice", 1, [email |-> "a", name |-> "A"])
    \/ \E s \in SignerIds : AddSignerField(s)
    \/ \E p \in Procs, t \in Tokens, data \in Payloads : SignLookup(p, t, data)
    \/ \E p \in Procs : SignStep(p, StoreOutcomes)

ResignSpec == DocInit(MaxSigners - 1, SENT) /\ [][ResignNext]_vars

\* One Sent document whose MaxSigners signers each submit once: from the
\* state after the send_document, only the sign_document request of each
\* signer.
RaceInit == DocInit(MaxSigners, SENT)

RaceNext ==
    \/ \E p \in Procs \cap SignerIds, data \in Payloads : SignLookup(p, p, data)
    \/ \E p \in Procs : SignStep(p, {"ok"})

RaceSpec == RaceInit /\ [][RaceNext]_vars

\* Two Draft documents of alice, the first with one signer: the owner adds
\* signers to either document while send_document requests of either user
\* arrive for any document id.
SendInit ==
    /\ IS_VERCEL \in BOOLEAN
    /\ documents = [d \in 1..2 |-> [id |-> d, user_id |-> "alice", status |-> DRAFT]]
    /\ signers = <<[id |-> 1, document_id |-> 1, email |-> "a", name |-> "A",
                    token |-> 1, has_signed |-> FALSE, signed_at |-> Null]>>
    /\ fields = <<DefaultField(1, 1)>>
    /\ audit_logs = <<>>
    /\ \E k \in UploadKinds :
          uploads = [d \in DocIds |-> IF d <= 2 THEN UploadedFile(k) ELSE NoFile]
    /\ sigFiles = [s \in SignerIds |-> NoFile]
    /\ signedFiles = [d \in DocIds |-> NoFile]
    /\ pendingField = {}
    /\ calls = [p \in Procs |-> IdleCall]
    /\ sends = [q \in SendProcs |-> IdleSend]
    /\ response = NoResponse
    /\ composite = NoComposite

SendNext ==
    \/ \E d \in 1..2 : AddSignerCommit("alice", d, [email |-> "b", name |-> "B"])
    \/ \E s \in SignerIds : AddSignerField(s)
    \/ \E q \in SendProcs, u \in Users, d \in DocIds : SendRead(q, u, d)
    \/ \E q \in SendProcs : SendCommit(q)
    \/ \E q \in SendProcs : SendLinks(q)

SendSpec == SendInit /\ [][SendNext]_vars

\* A Draft document with its signers: send_document requests of the owner
\* arrive one after the other or overlapping while each signer submits
\* once; the artifact store does not fail.
ResendNext ==
    \/ \E q \in SendProcs : SendRead(q, "alice", 1)
    \/ \E q \in SendProcs : SendCommit(q)
    \/ \E q \in SendProcs : SendLinks(q)
    \/ \E p \in Procs \cap SignerIds : SignLookup(p, p, "imgA")
    \/ \E p \in Procs : SignStep(p, {"ok"})

ResendSpec == DocInit(MaxSigners - 1, DRAFT) /\ [][ResendNext]_vars

\* A Sent document with its signers: sign_document and view requests arrive
\* with any token, also tokens that no signer has; the artifact store does
\* not fail.
TokenNext ==
    \/ \E p \in Procs, t \in Tokens : SignLookup(p, t, "imgA")
    \/ \E p \in Procs : SignStep(p, {"ok"})
    \/ \E t \in Tokens : ViewForSigning(t)

TokenSpec == DocInit(MaxSigners - 1, SENT) /\ [][TokenNext]_vars

\* an owner-side request is between two of its steps
OwnerBusy ==
    \/ pendingField # {}
    \/ \E q \in SendProcs : sends[q].pc \in {"commit", "links"}

\* A Draft document of alice that lacks its last signer: both users issue
\* owner-side requests for it, one request after the other.
OwnerNext ==
    \/ /\ ~OwnerBusy
       /\ \E u \in Users, d \in 1..Len(documents), in \in SignerInputs :
             AddSignerCommit(u, d, in)
    \/ \E s \in SignerIds : AddSignerField(s)
    \/ /\ ~OwnerBusy
       /\ \E u \in Users, d \in 1..Len(documents), in \in FieldInputs :
             AddField(u, d, in)
    \/ /\ ~OwnerBusy
       /\ \E q \in SendProcs, u \in Users, d \in 1..Len(documents) :
             SendRead(q, u, d)
    \/ \E q \in SendProcs : SendCommit(q)
    \/ \E q \in SendProcs : SendLinks(q)
    \/ /\ ~OwnerBusy
       /\ \E u \in Users, d \in 1..Len(documents), o \in StoreOutcomes :
             Download(u, d, o)

OwnerSpec == DocInit(MaxSigners - 1, DRAFT) /\ [][OwnerNext]_vars

\* A Sent document with its signers: each signer submits once while the
\* owner, another user and the signers download the document; the artifact
\* store does not fail.
DownloadNext ==
    \/ \E p \in Procs \cap SignerIds : SignLookup(p, p, "imgA")
    \/ \E p \in Procs : SignStep(p, {"ok"})
    \/ \E u \in Users, d \in 1..Len(documents) : Download(u, d, "ok")
    \/ \E t \in Tokens : DownloadByToken(t, "ok")

DownloadSpec == DocInit(MaxSigners - 1, SENT) /\ [][DownloadNext]_vars

\* A Draft document with its signers: the owner sends it, also with
\* overlapping send_document requests, each signer submits once, and view
\* requests arrive with any token at any time; the artifact store does not
\* fail.
ViewNext ==
    \/ \E q \in SendProcs : SendRead(q, "alice", 1)
    \/ \E q \in SendProcs : SendCommit(q)
    \/ \E q \in SendProcs : SendLinks(q)
    \/ \E p \in Procs \cap SignerIds : SignLookup(p, p, "imgA")
    \/ \E p \in Procs : SignStep(p, {"ok"})
    \/ \E t \in Tokens : ViewForSigning(t)

ViewSpec == DocInit(MaxSigners, DRAFT) /\ [][ViewNext]_vars

\* Several Draft documents of alice, the first with a signer and its default
\* field: the owner adds signers, sets fields and sends the documents and
\* each signer submits once when its document is Sent, one request after
\* the other; the artifact store does not fail.
DocsInit ==
    /\ IS_VERCEL = FALSE
    /\ documents = [d \in DocIds |-> [id |-> d, user_id |-> "alice", status |-> DRAFT]]
    /\ signers = <<[id |-> 1, document_id |-> 1, email |-> "a", name |-> "A",
                    token |-> 1, has_signed |-> FALSE, signed_at |-> Null]>>
    /\ fields = <<DefaultField(1, 1)>>
    /\ audit_logs = <<>>
    /\ uploads = [d \in DocIds |-> UploadedFile("pdf")]
    /\ sigFiles = [s \in SignerIds |-> NoFile]
    /\ signedFiles = [d \in DocIds |-> NoFile]
    /\ pendingField = {}
    /\ calls = [p \in Procs |-> IdleCall]
    /\ sends = [q \in SendProcs |-> IdleSend]
    /\ response = NoResponse
    /\ composite = NoComposite

\* a request is between two of its steps
DocsBusy ==
    \/ OwnerBusy
    \/ \E p \in Procs : calls[p].pc \notin {"idle", "done"}

DocsNext ==
    \/ /\ ~DocsBusy
       /\ \E d \in DocIds : AddSignerCommit("alice", d, [email |-> "a", name |-> "A"])
    \/ \E s \in SignerIds : AddSignerField(s)
    \/ /\ ~DocsBusy
       /\ \E d \in DocIds :
             AddField("alice", d,
                      [signer_email |-> "a", page_number |-> 2,
                       x_coordinate |-> 100, y_coordinate |-> 100,
                       type |-> "DATE", include_name |-> FALSE,
                       include_date |-> TRUE])
    \/ /\ ~DocsBusy
       /\ \E q \in SendProcs, d \in DocIds : SendRead(q, "alice", d)
    \/ \E q \in SendProcs : SendCommit(q)
    \/ \E q \in SendProcs : SendLinks(q)
    \/ /\ ~DocsBusy
       /\ \E p \in Procs \cap SignerIds :
             /\ p <= Len(signers)
             /\ documents[signers[p].document_id].status = SENT
             /\ SignLookup(p, p, "imgA")
    \/ \E p \in Procs : SignStep(p, {"ok"})

DocsSpec == DocsInit /\ [][DocsNext]_vars

\* The life of one document from its upload: the owner adds signers, one
\* request after the other, and sends, also with overlapping send_document
\* requests, while each signer submits once; the artifact store does not
\* fail.
StatusNext ==
    \/ documents = <<>> /\ Upload("alice", "pdf")
    \/ /\ documents # <<>> /\ pendingField = {}
       /\ AddSignerCommit("alice", 1, [email |-> "a", name |-> "A"])
    \/ \E s \in SignerIds : AddSignerField(s)
    \/ \E q \in SendProcs : documents # <<>> /\ SendRead(q, "alice", 1)
    \/ \E q \in SendProcs : SendCommit(q)
    \/ \E q \in SendProcs : SendLinks(q)
    \/ \E p \in Procs \cap SignerIds : SignLookup(p, p, "imgA")
    \/ \E p \in Procs : SignStep(p, {"ok"})

StatusSpec == Init /\ [][StatusNext]_vars

\* sign_pdf_bytes taken alone: the original has up to MaxPages pages or is
\* no PDF, the list has up to MaxPlacements signatures for the first or the
\* last page, the j-th at x = 100 j with the name of the j-th signer, and the function is invoked once for
\* each set of temporary names on the same arguments.
SignerNames == <<"A", "B", "C", "D">>

SignatureAt(j, c) ==
    [page_number |-> c.page_number, x |-> 100 * j, y |-> 200,
     text |-> SignerNames[j], image_data |-> c.image_data,
     include_name |-> c.include_name, include_date |-> c.include_date,
     signed_at |-> "2024-05-01 10:30"]

SignatureChoices ==
    [page_number : {1, MaxPages}, image_data : ImageData,
     include_name : BOOLEAN, include_date : BOOLEAN]

SignatureLists ==
    UNION {{[j \in 1..n |-> SignatureAt(j, cs[j])] : cs \in [1..n -> SignatureChoices]}
           : n \in 0..MaxPlacements}

CompositeInit ==
    /\ IS_VERCEL = FALSE
    /\ documents = <<>>
    /\ signers = <<>>
    /\ fields = <<>>
    /\ audit_logs = <<>>
    /\ uploads = [d \in DocIds |-> NoFile]
    /\ sigFiles = [s \in SignerIds |-> NoFile]
    /\ signedFiles = [d \in DocIds |-> NoFile]
    /\ pendingField = {}
    /\ calls = [p \in Procs |-> IdleCall]
    /\ sends = [q \in SendProcs |-> IdleSend]
    /\ response = NoResponse
    /\ composite \in [input_pdf_bytes : {Pdf(1), Pdf(MaxPages), NotPdf},
                      signatures : SignatureLists,
                      empty : {"blank", "raise"},
                      outputs : {[r \in TmpSeeds |-> NotRun]}]

CompositeNext == \E r \in TmpSeeds : Composite(r)

CompositeSpec == CompositeInit /\ [][CompositeNext]_vars

\* ---------------------------------------------------------------- claims
Exists(d) == d \in 1..Len(documents)
\* no sign_document request is at work on document d
Quiescent(d) == \A p \in Procs : calls[p].pc \in {"idle", "done"} \/ calls[p].doc # d

\* C1: when the N signers of one document (its original a PDF) each submit
\* once, however the requests interleave, the signed PDF is written (once)
\* and exactly one COMPLETED audit row is appended.
C1_FinalizedExactlyOnce ==
    (uploads[1].kind = "pdf" /\ AllSigned(SignersOf(1)) /\ Quiescent(1))
        => (signedFiles[1].kind = "pdf" /\ AuditCount(1, "COMPLETED") = 1)

\* C2: a document is created as DRAFT and its status only ever changes from
\* DRAFT to SENT or from SENT to COMPLETED.
C2_StatusSteps ==
    [][\A d \in DocIds :
          /\ (~Exists(d) /\ Exists(d)') => documents'[d].status = DRAFT
          /\ Exists(d) =>
                \/ documents'[d].status = documents[d].status
                \/ documents[d].status = DRAFT /\ documents'[d].status = SENT
                \/ documents[d].status = SENT /\ documents'[d].status = COMPLETED
      ]_vars

C2_Witness ==
    /\ Exists(1)
    /\ documents[1].status = SENT
    /\ AuditCount(1, "SENT") = 2
    /\ Len(SignersOf(1)) >= 1
    /\ AllSigned(SignersOf(1))
    /\ Quiescent(1)

\* C3: when every signer of a document that was sent (at least one signer,
\* the original a PDF, the stores not failing) has submitted and the requests
\* have returned, the status is COMPLETED, the signed PDF is stored under the
\* document's key and every request that got past the has_signed check
\* returned success.
C3_CompletionReached ==
    \A d \in DocIds :
        (/\ Exists(d)
         /\ documents[d].status # DRAFT
         /\ uploads[d].kind = "pdf"
         /\ Len(SignersOf(d)) >= 1
         /\ AllSigned(SignersOf(d))
         /\ Quiescent(d))
        => /\ documents[d].status = COMPLETED
           /\ signedFiles[d].kind = "pdf"
           /\ \A p \in Procs : calls[p].result \in {"none", "ok", "400", "404"}

\* the token t belongs to a signer whose has_signed is true
AlreadySigned(t) ==
    \E s \in 1..Len(signers) : signers[s].token = t /\ signers[s].has_signed

\* C5: sign_document with the token of a signer that has already signed
\* answers 400 "Already signed" and changes neither the tables nor the
\* artifact store.
C5_AlreadySignedNoEffect ==
    [][\A p \in Procs, t \in Tokens, data \in Payloads :
          (AlreadySigned(t) /\ SignLookup(p, t, data))
          => /\ calls'[p].pc = "done"
             /\ calls'[p].result = "400"
             /\ UNCHANGED <<dbVars, storeVars>>
      ]_vars

C5_Witness ==
    /\ \E p \in Procs : calls[p].pc = "done" /\ calls[p].result = "400"
    /\ \E s \in 1..Len(signers) : signers[s].has_signed /\ sigFiles[s].kind = "sig"

\* C6: has_signed of a signer flips once: every SIGNED audit row of a
\* document belongs to a different signer that has signed.
C6_FlipOnce ==
    \A d \in DocIds :
        AuditCount(d, "SIGNED") <=
            Cardinality({s \in 1..Len(signers) :
                            signers[s].document_id = d /\ signers[s].has_signed})

C11_SendNotDraftFails ==
    [][/\ \A q \in SendProcs, u \in Users, d \in DocIds :
             (/\ FindDocument(u, d) # 0
              /\ documents[d].status # DRAFT
              /\ SendRead(q, u, d))
             => /\ sends'[q].pc = "done"
                /\ sends'[q].result = "400"
                /\ UNCHANGED <<dbVars, storeVars>>
       /\ \A d \in 1..Len(documents') :
             AuditCount(d, "SENT")' >= 1 => documents'[d].status # DRAFT
      ]_vars

C11_Witness ==
    /\ sends[1].pc = "done" /\ sends[1].result = "ok"
    /\ sends[2].pc = "done" /\ sends[2].result = "400"
    /\ AuditCount(1, "SENT") = 1

\* C12: a document has at most one SENT audit row, also when send_document
\* requests for it overlap.
C12_OneSentAudit ==
    \A d \in DocIds : AuditCount(d, "SENT") <= 1

\* the value of the signing_token parameter of a link
TokenOf(link) == link[2]

C14_UnknownTokenNotFound ==
    [][\A t \in Tokens :
          (\A s \in 1..Len(signers) : signers[s].token # t)
          => /\ \A p \in Procs, data \in Payloads :
                   SignLookup(p, t, data)
                   => /\ calls'[p].pc = "done"
                      /\ calls'[p].result = "404"
                      /\ UNCHANGED <<dbVars, storeVars>>
             /\ ViewForSigning(t)
                   => /\ response' = NotFound("view")
                      /\ UNCHANGED <<dbVars, storeVars>>
      ]_vars

C14_Witness ==
    /\ response = NotFound("view")
    /\ \E p \in Procs : calls[p].pc = "done" /\ calls[p].result = "404"
    /\ Len(signers) >= 1

\* C15: send_document, add_signer, add_field and download_document called
\* by a user who does not own the document answer 404 and change neither
\* the tables nor the artifact store.
C15_NotOwnerNotFound ==
    [][\A u \in Users, d \in DocIds :
          (Exists(d) /\ documents[d].user_id # u)
          => /\ \A q \in SendProcs :
                   SendRead(q, u, d)
                   => /\ sends'[q].pc = "done"
                      /\ sends'[q].result = "404"
                      /\ UNCHANGED <<dbVars, storeVars>>
             /\ \A in \in SignerInputs :
                   AddSignerCommit(u, d, in)
                   => /\ response' = NotFound("add_signer")
                      /\ UNCHANGED <<dbVars, storeVars>>
             /\ \A in \in FieldInputs :
                   AddField(u, d, in)
                   => /\ response' = NotFound("add_field")
                      /\ UNCHANGED <<dbVars, storeVars>>
             /\ \A o \in StoreOutcomes :
                   Download(u, d, o)
                   => /\ response' = NotFound("download")
                      /\ UNCHANGED <<dbVars, storeVars>>
      ]_vars

C15_Witness ==
    /\ \E q \in SendProcs : sends[q].pc = "done" /\ sends[q].result = "404"
    /\ response = NotFound("add_signer")
    /\ documents[1].user_id = "alice"
    /\ documents[1].status = DRAFT

\* the rows of fields for signer s and its document
FieldRowsOf(flds, sgs, s) ==
    {i \in 1..Len(flds) :
        flds[i].document_id = sgs[s].document_id /\ flds[i].signer_id = s}

\* C16: when add_signer and add_field requests run one after the other,
\* every signer has exactly one Field row for its document, and an add_field
\* for a signer that has a Field row keeps the number of rows and leaves
\* that row with the page, x, y, type, include_name and include_date of the
\* request.
C16_OneFieldPerSigner ==
    [][/\ pendingField' = {}
          => \A s \in 1..Len(signers') :
                Cardinality(FieldRowsOf(fields', signers', s)) = 1
       /\ \A u \in Users, d \in DocIds, in \in FieldInputs :
             (AddField(u, d, in) /\ fields' # fields)
             => /\ Len(fields') = Len(fields)
                /\ \E s \in 1..Len(signers) :
                      /\ signers[s].document_id = d
                      /\ signers[s].email = in.signer_email
                      /\ \A i \in FieldRowsOf(fields', signers', s) :
                            /\ fields'[i].page_number = in.page_number
                            /\ fields'[i].x_coordinate = in.x_coordinate
                            /\ fields'[i].y_coordinate = in.y_coordinate
                            /\ fields'[i].type = in.type
                            /\ fields'[i].include_name = in.include_name
                            /\ fields'[i].include_date = in.include_date
      ]_vars

C16_Witness ==
    /\ pendingField = {}
    /\ Len(signers) = 2
    /\ Len(fields) = 2
    /\ fields[1].page_number = 3
    /\ fields[2].page_number = 2

\* C17: every Signer row has a Field row for its document in every committed
\* state, and the row add_signer creates for a new signer is the one default
\* Field: page 1, x 450, y 750, SIGNATURE, include_name and include_date
\* true.
C17_SignerHasDefaultField ==
    [][/\ \A s \in 1..Len(signers') : FieldRowsOf(fields', signers', s) # {}
       /\ \A s \in pendingField \ pendingField' :
             /\ Len(fields') = Len(fields) + 1
             /\ fields'[Len(fields')] =
                   [document_id |-> signers[s].document_id, signer_id |-> s,
                    page_number |-> 1, x_coordinate |-> 450, y_coordinate |-> 750,
                    type |-> "SIGNATURE", include_name |-> TRUE,
                    include_date |-> TRUE]
      ]_vars

\* the positions of the audit rows of document d with the given action
AuditAt(d, action) ==
    {i \in 1..Len(audit_logs) : audit_logs[i] = [document_id |-> d, action |-> action]}

\* the audit log of document 1 once its N signers have all submitted and the
\* requests have returned: N + 2 rows, one SENT before every SIGNED, N
\* SIGNED, one COMPLETED after every SIGNED
AuditShape ==
    (AllSigned(SignersOf(1)) /\ Quiescent(1))
    => /\ Len(audit_logs) = Len(SignersOf(1)) + 2
       /\ Cardinality(AuditAt(1, "SENT")) = 1
       /\ Cardinality(AuditAt(1, "SIGNED")) = Len(SignersOf(1))
       /\ Cardinality(AuditAt(1, "COMPLETED")) = 1
       /\ \A i \in AuditAt(1, "SENT"), j \in AuditAt(1, "SIGNED") : i < j
       /\ \A i \in AuditAt(1, "SIGNED"), j \in AuditAt(1, "COMPLETED") : i < j

\* C19: a Sent document (its original a PDF) whose N signers each submit
\* once ends with N + 2 audit rows, SENT first, then N SIGNED, then one
\* COMPLETED, and no step removes or alters an audit row.
C19_AuditLogShape ==
    [][/\ Len(audit_logs') >= Len(audit_logs)
       /\ \A i \in 1..Len(audit_logs) : audit_logs'[i] = audit_logs[i]
       /\ uploads[1].kind = "pdf" => AuditShape'
      ]_vars

\* C20: the file stored under a signer's key holds the payload that was
\* submitted, and once the signer has signed no later step of any request
\* overwrites or deletes it.
C20_SignaturePreserved ==
    [][/\ \A p \in Procs :
             (calls[p].pc = "upload_sig" /\ calls'[p].pc = "commit1")
             => sigFiles'[calls[p].sid] = SigFile(calls[p].data)
       /\ \A s \in 1..Len(signers) :
             signers[s].has_signed
             => (sigFiles[s].kind = "sig" /\ sigFiles'[s] = sigFiles[s])
      ]_vars

\* the page of signature sig in output out has a text line s at sig's x and
\* at height y (a signature of a page the original lacks has no page)
HasLine(out, sig, y, s) ==
    sig.page_number \in 1..Len(out.pages) =>
        \E k \in 1..Len(out.pages[sig.page_number]) :
            LET o == out.pages[sig.page_number][k]
            IN o.op = "text" /\ o.x = sig.x /\ o.y = y /\ o.s = s

\* the page of signature sig in output out has sig's picture at its place
HasImage(out, sig) ==
    sig.page_number \in 1..Len(out.pages) =>
        \E k \in 1..Len(out.pages[sig.page_number]) :
            LET o == out.pages[sig.page_number][k]
            IN o.op = "image" /\ o.x = sig.x /\ o.y = sig.y

\* C21: a signature whose image_data cannot be decoded does not abort
\* sign_pdf_bytes: an invocation on a PDF with such a signature returns a
\* PDF, in it the lines "Signer: {text}" and "Date: {signed_at}" asked for
\* by that signature are drawn at its coordinates, and every signature
\* with a decodable picture still has its picture drawn
C21_UndecodableImageKeepsText ==
    \A r \in TmpSeeds :
        LET out == composite.outputs[r]
            sigs == composite.signatures
        IN (/\ out # NotRun
            /\ composite.input_pdf_bytes.kind = "pdf"
            /\ \E j \in 1..Len(sigs) : sigs[j].image_data = "bad")
           => /\ out.kind = "pdf"
              /\ \A j \in 1..Len(sigs) :
                    /\ (sigs[j].image_data = "bad" /\ sigs[j].include_name)
                       => HasLine(out, sigs[j], sigs[j].y - 10,
                                  <<"Signer: ", sigs[j].text>>)
                    /\ (sigs[j].image_data = "bad" /\ sigs[j].include_date)
                       => HasLine(out, sigs[j],
                                  IF sigs[j].include_name THEN sigs[j].y - 20
                                  ELSE sigs[j].y - 10,
                                  <<"Date: ", sigs[j].signed_at>>)
                    /\ sigs[j].image_data = "imgA" => HasImage(out, sigs[j])

\* the signatures of page i
OnPage(i) ==
    {j \in 1..Len(composite.signatures) : composite.signatures[j].page_number = i}

\* C22: an invocation of sign_pdf_bytes that returns, returns the pages of
\* the original in their order: each page starts with its original
\* content, a page without signature is the original page, what a page got
\* on top is drawn for a signature of that page only, and without any
\* signature the output is the original
C22_PagesKept ==
    \A r \in TmpSeeds :
        LET out == composite.outputs[r]
            orig == composite.input_pdf_bytes
        IN out.kind = "pdf" =>
            /\ orig.kind = "pdf"
            /\ Len(out.pages) = Len(orig.pages)
            /\ \A i \in 1..Len(out.pages) :
                  /\ Len(out.pages[i]) >= Len(orig.pages[i])
                  /\ SubSeq(out.pages[i], 1, Len(orig.pages[i])) = orig.pages[i]
                  /\ OnPage(i) = {} => out.pages[i] = orig.pages[i]
                  /\ \A k \in (Len(orig.pages[i]) + 1)..Len(out.pages[i]) :
                        \E j \in OnPage(i) :
                            out.pages[i][k].x = composite.signatures[j].x
            /\ composite.signatures = <<>> => out = orig

\* an invocation returned a document of several pages, one with something
\* drawn on top and one without signature
C22_Witness ==
    \E r \in TmpSeeds :
        LET out == composite.outputs[r]
        IN /\ out.kind = "pdf"
           /\ Len(out.pages) > 1
           /\ \E i \in 1..Len(out.pages) : Len(out.pages[i]) > 1
           /\ \E i \in 1..Len(out.pages) :
                 OnPage(i) = {} /\ out.pages[i] = OrigPage(i)

\* C23: sign_pdf_bytes is deterministic: two invocations with the same
\* input_pdf_bytes and the same list of signatures end alike, with the
\* same output
C23_Deterministic ==
    \A r1, r2 \in TmpSeeds :
        (composite.outputs[r1] # NotRun /\ composite.outputs[r2] # NotRun)
        => composite.outputs[r1] = composite.outputs[r2]

\* C24: view_document_for_signing with the token of a signer answers 200
\* whatever the status of the document and whatever the other signers have
\* done, with the fields of the document whose signer_id is that signer and
\* no other field, and changes neither the tables nor the artifact store.
C24_ViewAnyStatus ==
    [][\A t \in Tokens, s \in SignerIds :
          (/\ s <= Len(signers)
           /\ signers[s].token = t
           /\ ViewForSigning(t))
          => /\ response'.op = "view"
             /\ response'.status = "200"
             /\ response'.document_id = signers[s].document_id
             /\ \A k \in 1..Len(response'.fields) :
                   response'.fields[k].signer_id = s
             /\ \A f \in 1..Len(fields) :
                   (fields[f].signer_id = s
                    /\ fields[f].document_id = signers[s].document_id)
                   => \E k \in 1..Len(response'.fields) :
                         response'.fields[k] = fields[f]
             /\ UNCHANGED <<dbVars, storeVars>>
      ]_vars

\* a signer that has not signed got the view of a Sent document on which
\* another signer, with a field of its own, has signed
C24_Witness ==
    /\ response.op = "view"
    /\ response.status = "200"
    /\ response.fields # <<>>
    /\ documents[response.document_id].status = SENT
    /\ \E s, o \in 1..Len(signers) :
          /\ s # o
          /\ ~signers[s].has_signed
          /\ response.fields[1].signer_id = s
          /\ signers[o].has_signed
          /\ signers[o].document_id = response.document_id
          /\ \E f \in 1..Len(fields) : fields[f].signer_id = o

\* the rows of audit_logs of document d
AuditOf(d) == SelectSeq(audit_logs, LAMBDA a : a.document_id = d)

\* the step is a step of a request on document d
OnDocument(d) ==
    \/ \E u \in Users, in \in SignerInputs : AddSignerCommit(u, d, in)
    \/ \E s \in SignerIds :
          s <= Len(signers) /\ signers[s].document_id = d /\ AddSignerField(s)
    \/ \E u \in Users, in \in FieldInputs : AddField(u, d, in)
    \/ \E q \in SendProcs, u \in Users : SendRead(q, u, d)
    \/ \E q \in SendProcs : sends[q].doc = d /\ (SendCommit(q) \/ SendLinks(q))
    \/ \E p \in Procs, t \in Tokens, data \in Payloads :
          /\ \E s \in 1..Len(signers) :
                signers[s].token = t /\ signers[s].document_id = d
          /\ SignLookup(p, t, data)
    \/ \E p \in Procs : calls[p].doc = d /\ SignStep(p, StoreOutcomes)

\* C25: a step of sign_document, send_document, add_signer or add_field on
\* document d leaves the row, the signers, the fields, the audit rows, the
\* stored signatures, the original and the signed file of every other
\* document as they were.
C25_DocumentsIndependent ==
    [][\A d \in DocIds :
          OnDocument(d)
          => \A e \in DocIds \ {d} :
                Exists(e)
                => /\ documents'[e] = documents[e]
                   /\ SelectSeq(signers', LAMBDA s : s.document_id = e) = SignersOf(e)
                   /\ SelectSeq(fields', LAMBDA f : f.document_id = e) = FieldsOf(e)
                   /\ SelectSeq(audit_logs', LAMBDA a : a.document_id = e) = AuditOf(e)
                   /\ \A s \in 1..Len(signers) :
                         signers[s].document_id = e => sigFiles'[s] = sigFiles[s]
                   /\ uploads'[e] = uploads[e]
                   /\ signedFiles'[e] = signedFiles[e]
      ]_vars

\* document 1 is Sent and signed by its signer, whose signature is stored,
\* while document 2 is a Draft with a signer of its own whose field
\* add_field has set
C25_Witness ==
    /\ Len(documents) >= 2
    /\ documents[1].status = SENT
    /\ AllSigned(SignersOf(1)) /\ SignersOf(1) # <<>>
    /\ \E s \in 1..Len(signers) :
          signers[s].document_id = 1 /\ sigFiles[s].kind = "sig"
    /\ documents[2].status = DRAFT
    /\ \E f \in 1..Len(fields) :
          fields[f].document_id = 2 /\ fields[f].page_number = 2
    /\ AuditOf(1) # <<>> /\ AuditOf(2) = <<>>

\* C26: in every state of the tables a signer has has_signed exactly when
\* its signed_at is set.
C26_SignedIffSignedAt ==
    \A s \in 1..Len(signers) :
        signers[s].has_signed <=> signers[s].signed_at # Null

\* a signer has signed, by two submissions that both committed, and has its
\* signed_at
C26_Witness ==
    \E s \in 1..Len(signers) :
        /\ signers[s].has_signed
        /\ signers[s].signed_at # Null
        /\ AuditCount(signers[s].document_id, "SIGNED") = 2

====
